---- MODULE Spec2Model ----
(***************************************************************************)
(* Model of state_json_bldr.py: the "Build profile" handler of the Pick-5  *)
(* profile builder.  One click runs: read text -> load_draws_from_text ->  *)
(* ensure_oldest_to_newest -> window -> build_transition_matrices ->       *)
(* export.  Characters are one-character strings, a line is a sequence of  *)
(* characters, a text is a sequence of characters with "\n" line breaks.   *)
(* Percentages are kept as integers in units of 1e-6 (the 6 decimals of    *)
(* round(x, 6)).                                                           *)
(***************************************************************************)
EXTENDS Integers, Sequences, FiniteSets, TLC

VARIABLES uploaded, raw_text, recent, pc, text, found, draws, note,
          total_parsed, recent_note, counts, mats, filename, buf, caption,
          sanity, errors

vars == <<uploaded, raw_text, recent, pc, text, found, draws, note,
          total_parsed, recent_note, counts, mats, filename, buf, caption,
          sanity, errors>>

\* ------------------------------------------------------------ bounds
MaxLines == 4
MaxRecent == 3
MaxFileLines == 1

\* ------------------------------------------------------------ constants
STATES == {"OH", "DC", "FL", "GA", "PA", "LA", "VA", "DE"}
DRAWS == {"mid", "eve"}
\* the selections of the two select boxes: their defaults
Selections == {<<"DC", "mid">>}

NumPos == 5
NumDigits == 10
\* 100.0 in units of 1e-6
Hundred == 100000000

DigitChars == {"0", "1", "2", "3", "4", "5", "6", "7", "8", "9"}
WhiteChars == {" ", "\n"}
NL == "\n"

\* int(g) for a one-digit group
DigitVal(c) ==
  CASE c = "0" -> 0 [] c = "1" -> 1 [] c = "2" -> 2 [] c = "3" -> 3
    [] c = "4" -> 4 [] c = "5" -> 5 [] c = "6" -> 6 [] c = "7" -> 7
    [] c = "8" -> 8 [] c = "9" -> 9

\* ------------------------------------------------------------ inputs
LineDashed == <<"1", "-", "7", "-", "4", "-", "8", "-", "8">>
LinePlain == <<"1", "7", "4", "8", "8">>
LineSecond == <<"2", "-", "2", "-", "3", "-", "4", "-", "5">>
LineDated == <<"a", "9", " ", "1", "7", "4", "8", "8">>
LineShort == <<"1", "2", "-", "3", "4">>
LineBlank == <<" ">>

LinePool == {LineDashed, LinePlain, LineSecond, LineDated, LineShort}

RECURSIVE JoinLines(_)
JoinLines(ls) ==
  IF Len(ls) = 0 THEN <<>>
  ELSE IF Len(ls) = 1 THEN ls[1]
  ELSE ls[1] \o <<NL>> \o JoinLines(Tail(ls))

LineSeqs(n) == UNION {[1..k -> LinePool] : k \in 0..n}
\* texts with blank lines: whitespace only, and blank lines among draws
BlankTexts ==
  {<<NL>>, LineBlank, JoinLines(<<LineBlank, LineBlank>>),
   JoinLines(<<LineShort, LineDated, LineBlank, LineDashed>>),
   JoinLines(<<LineBlank, LinePlain>>)}
\* texts pasted into the text area
Texts == {JoinLines(ls) : ls \in LineSeqs(MaxLines)} \cup BlankTexts
\* contents of an uploaded file, and what the text area holds meanwhile
FileTexts == {JoinLines(ls) : ls \in LineSeqs(MaxFileLines)}
                \cup {JoinLines(<<LineDated, LineSecond, LinePlain>>)}
IgnoredPaste == LineSecond

NoMsg == ""
NoteReversed == "Input looked newest->oldest; reversed to oldest->newest."
NoteAlready == "Input already oldest->newest."
ErrEmpty == "Please upload a file or paste draw text."
ErrTooFew == "Error: Need at least 2 parsed draws in the file/text."
RecentAll == "Using all parsed draws."
RecentSome(n) == <<"Using most recent ", n, " draws.">>

\* ------------------------------------------------------------ text helpers
\* str.strip(): drop leading and trailing whitespace
RECURSIVE LStrip(_)
LStrip(s) ==
  IF Len(s) > 0 /\ s[1] \in WhiteChars THEN LStrip(Tail(s)) ELSE s

RECURSIVE RStrip(_)
RStrip(s) ==
  IF Len(s) > 0 /\ s[Len(s)] \in WhiteChars
  THEN RStrip(SubSeq(s, 1, Len(s) - 1)) ELSE s

\* variant: the text tested without strip()
NoStrip(s) == s

Strip(s) == RStrip(LStrip(s))

\* str.splitlines(): split at line breaks, no empty last line
RECURSIVE SplitFrom(_, _, _)
SplitFrom(s, i, cur) ==
  IF i > Len(s) THEN (IF Len(cur) > 0 THEN <<cur>> ELSE <<>>)
  ELSE IF s[i] = NL THEN <<cur>> \o SplitFrom(s, i + 1, <<>>)
  ELSE SplitFrom(s, i + 1, Append(cur, s[i]))

splitlines(s) == SplitFrom(s, 1, <<>>)

\* ------------------------------------------------------------ Draw Extractor
None == <<>>

\* DRAW_RE anchored at start index j with k groups still to match:
\* (\d) then, for every further group, a lazy run of non-digits and (\d)
RECURSIVE MatchGroups(_, _, _, _)
MatchGroups(line, j, k, acc) ==
  IF k = 0 THEN acc
  ELSE IF j > Len(line) THEN None
  ELSE IF line[j] \in DigitChars
       THEN MatchGroups(line, j + 1, k - 1, Append(acc, line[j]))
  ELSE IF Len(acc) = 0 THEN None
  ELSE MatchGroups(line, j + 1, k, acc)

\* variant: DRAW_RE.match(line), anchored at the start index
DRAW_RE_match(line, i) == MatchGroups(line, i, NumPos, <<>>)

\* DRAW_RE.search(line): leftmost start index that matches
RECURSIVE DRAW_RE_search(_, _)
DRAW_RE_search(line, i) ==
  IF i > Len(line) THEN None
  ELSE LET m == MatchGroups(line, i, NumPos, <<>>)
       IN IF m # None THEN m ELSE DRAW_RE_search(line, i + 1)

extract_draw_from_line(line) ==
  LET m == DRAW_RE_search(line, 1)
  IN IF m = None THEN None ELSE [g \in 1..Len(m) |-> DigitVal(m[g])]

RECURSIVE ScanLines(_, _)
ScanLines(ls, acc) ==
  IF Len(ls) = 0 THEN acc
  ELSE LET digs == extract_draw_from_line(ls[1])
       IN ScanLines(Tail(ls), IF digs # None THEN Append(acc, digs) ELSE acc)

\* the list built by the loop of load_draws_from_text
load_draws_scan(t) == ScanLines(splitlines(t), <<>>)

MinDraws == 2
\* variant: only an empty list raises
raises_when_empty(ds) == Len(ds) < 1

load_draws_raises(ds) == Len(ds) < MinDraws

\* ------------------------------------------------------------ Orientation Resolver
Reverse(ds) == [i \in 1..Len(ds) |-> ds[Len(ds) + 1 - i]]

\* variant: the last draw counted as a predecessor too
AllDraws(ds) == ds

\* draws[:-1]
AllButLast(ds) == IF Len(ds) = 0 THEN <<>> ELSE SubSeq(ds, 1, Len(ds) - 1)

ZeroBins == [b \in 1..NumDigits |-> 0]

\* bins[d[pos]] += 1 for d in draws[:-1]
RECURSIVE FillBins(_, _, _)
FillBins(ds, pos, bins) ==
  IF Len(ds) = 0 THEN bins
  ELSE FillBins(Tail(ds), pos, [bins EXCEPT ![ds[1][pos] + 1] = @ + 1])

RECURSIVE NonEmptyBins(_, _)
NonEmptyBins(bins, b) ==
  IF b > NumDigits THEN 0
  ELSE (IF bins[b] > 0 THEN 1 ELSE 0) + NonEmptyBins(bins, b + 1)

RECURSIVE CoverageFrom(_, _)
CoverageFrom(ds, pos) ==
  IF pos > NumPos THEN 0
  ELSE NonEmptyBins(FillBins(AllButLast(ds), pos, ZeroBins), 1)
       + CoverageFrom(ds, pos + 1)

coverage(ds) == CoverageFrom(ds, 1)

\* variant: a tie reverses as well
ShouldReverseOnTie(cov_a, cov_b) == cov_b >= cov_a

ShouldReverse(cov_a, cov_b) == cov_b > cov_a

\* variant: the comparison of the two scores the wrong way round
ensure_swapped(ds) ==
  IF ShouldReverse(coverage(Reverse(ds)), coverage(ds))
  THEN <<Reverse(ds), NoteReversed>>
  ELSE <<ds, NoteAlready>>

\* returns <<draws, note>>
ensure_oldest_to_newest(ds) ==
  LET cov_a == coverage(ds)
      cov_b == coverage(Reverse(ds))
  IN IF ShouldReverse(cov_a, cov_b) THEN <<Reverse(ds), NoteReversed>>
     ELSE <<ds, NoteAlready>>

\* ------------------------------------------------------------ Window Selector
\* variant: the window applied from N = 1 on
UseWindowFromOne(n) == n # 0 /\ n >= 1

UseWindow(n) == n # 0 /\ n > 1

\* variant: the window taken from the front, draws[:n]
FirstN(ds, n) == SubSeq(ds, 1, IF n >= Len(ds) THEN Len(ds) ELSE n)

\* draws[-n:]  (a start before the first element is clipped to it)
LastN(ds, n) ==
  SubSeq(ds, IF n >= Len(ds) THEN 1 ELSE Len(ds) - n + 1, Len(ds))

Window(ds, n) == IF UseWindow(n) THEN LastN(ds, n) ELSE ds

\* ------------------------------------------------------------ Matrix Builder
ZeroCounts ==
  [p \in 1..NumPos |-> [a \in 1..NumDigits |-> [b \in 1..NumDigits |-> 0]]]

\* counts[pos][seed[pos]][nxt[pos]] += 1 for pos in range(5)
RECURSIVE AddPair(_, _, _, _)
AddPair(cnt, seed, nxt, pos) ==
  IF pos > NumPos THEN cnt
  ELSE AddPair([cnt EXCEPT ![pos][seed[pos] + 1][nxt[pos] + 1] = @ + 1],
               seed, nxt, pos + 1)

\* variant: the pair loop stops one pair early
PairCountShort(ds) == Len(ds) - 2

\* number of iterations of the pair loop: range(len(draws)-1)
PairCount(ds) == Len(ds) - 1

RECURSIVE CountLoop(_, _, _)
CountLoop(ds, i, cnt) ==
  IF i > PairCount(ds) THEN cnt
  ELSE CountLoop(ds, i + 1, AddPair(cnt, ds[i], ds[i + 1], 1))

count_transitions(ds) == CountLoop(ds, 1, ZeroCounts)

RECURSIVE SumSeq(_)
SumSeq(row) == IF Len(row) = 0 THEN 0 ELSE row[1] + SumSeq(Tail(row))

\* n/d rounded to the nearest integer, ties to even
RoundDiv(n, d) ==
  LET q == n \div d
      r == n % d
  IN IF 2 * r > d THEN q + 1
     ELSE IF 2 * r = d THEN q + (q % 2)
     ELSE q

\* variant: the factor 100.0 left out (fractions instead of percentages)
PctFraction(c, s) == RoundDiv(1000000 * c, s)

\* round(100.0 * c / s, 6) in units of 1e-6
Pct(c, s) == RoundDiv(Hundred * c, s)

PctRow(row) ==
  LET s == SumSeq(row)
  IN IF s = 0 THEN [b \in 1..NumDigits |-> 0]
     ELSE [b \in 1..NumDigits |-> Pct(row[b], s)]

\* f"P{pos+1}" for pos = p - 1
PosLabel(p) ==
  CASE p = 1 -> "P1" [] p = 2 -> "P2" [] p = 3 -> "P3" [] p = 4 -> "P4"
    [] p = 5 -> "P5"

\* mats_pct as its items in insertion order: <<label, 10x10 matrix>>
to_percent(cnt) ==
  [p \in 1..NumPos |-> <<PosLabel(p), [a \in 1..NumDigits |-> PctRow(cnt[p][a])]>>]

build_transition_matrices(ds) == to_percent(count_transitions(ds))

\* round(sum(r), 3) per row, in units of 1e-3
pretty_row_sums(m) ==
  [p \in 1..NumPos |->
     <<m[p][1], [a \in 1..NumDigits |-> RoundDiv(SumSeq(m[p][2][a]), 1000)]>>]

\* ------------------------------------------------------------ Exporter
FileName(sel) == <<"positional_matrices_", sel[1], "_", sel[2], ".json">>

RECURSIVE Flatten(_)
Flatten(ss) == IF Len(ss) = 0 THEN <<>> ELSE ss[1] \o Flatten(Tail(ss))

\* json.dumps(mats): the keys in order, each followed by its 100 numbers
json_dumps(m) == Flatten([p \in 1..NumPos |-> <<m[p][1]>> \o Flatten(m[p][2])])

\* ------------------------------------------------------------ state machine
NoFile == [present |-> FALSE, data |-> <<>>]
File(t) == [present |-> TRUE, data |-> t]

Init ==
  /\ \/ uploaded = NoFile /\ raw_text \in Texts
     \/ \E t \in FileTexts : uploaded = File(t) /\ raw_text = IgnoredPaste
  /\ recent \in 0..MaxRecent
  /\ pc = "clicked"
  /\ text = <<>>
  /\ found = <<>>
  /\ draws = <<>>
  /\ note = NoMsg
  /\ total_parsed = 0
  /\ recent_note = NoMsg
  /\ counts = <<>>
  /\ mats = <<>>
  /\ filename = <<>>
  /\ buf = <<>>
  /\ caption = <<>>
  /\ sanity = <<>>
  /\ errors = <<>>

\* lines 112-118: pick the text, report blank input and stop
ReadText ==
  /\ pc = "clicked"
  /\ text' = IF uploaded.present THEN uploaded.data ELSE raw_text
  /\ IF Len(Strip(text')) = 0
     THEN /\ errors' = Append(errors, ErrEmpty)
          /\ pc' = "stopped"
     ELSE /\ errors' = errors
          /\ pc' = "load"
  /\ UNCHANGED <<uploaded, raw_text, recent, found, draws, note, total_parsed,
                 recent_note, counts, mats, filename, buf, caption, sanity>>

\* line 120 with lines 33-41 and the handler of lines 158-159
LoadDraws ==
  /\ pc = "load"
  /\ found' = load_draws_scan(text)
  /\ IF load_draws_raises(found')
     THEN /\ errors' = Append(errors, ErrTooFew)
          /\ draws' = draws
          /\ pc' = "failed"
     ELSE /\ errors' = errors
          /\ draws' = found'
          /\ pc' = "orient"
  /\ UNCHANGED <<uploaded, raw_text, recent, text, note, total_parsed,
                 recent_note, counts, mats, filename, buf, caption, sanity>>

\* lines 121-122
Orient ==
  /\ pc = "orient"
  /\ LET r == ensure_oldest_to_newest(draws)
     IN /\ draws' = r[1]
        /\ note' = r[2]
        /\ total_parsed' = Len(r[1])
  /\ pc' = "window"
  /\ UNCHANGED <<uploaded, raw_text, recent, text, found, recent_note, counts,
                 mats, filename, buf, caption, sanity, errors>>

\* lines 124-128
SelectWindow ==
  /\ pc = "window"
  /\ draws' = Window(draws, recent)
  /\ recent_note' = IF UseWindow(recent) THEN RecentSome(recent) ELSE <<RecentAll>>
  /\ pc' = "build"
  /\ UNCHANGED <<uploaded, raw_text, recent, text, found, note, total_parsed,
                 counts, mats, filename, buf, caption, sanity, errors>>

\* lines 130-156: build the matrices, then show and offer the result
BuildProfile ==
  /\ pc = "build"
  /\ counts' = count_transitions(draws)
  /\ mats' = build_transition_matrices(draws)
  /\ \E sel \in Selections : filename' = FileName(sel)
  /\ buf' = json_dumps(mats')
  /\ caption' = <<note, total_parsed, recent_note>>
  /\ sanity' = pretty_row_sums(mats')
  /\ pc' = "done"
  /\ UNCHANGED <<uploaded, raw_text, recent, text, found, draws, note,
                 total_parsed, recent_note, errors>>

Next ==
  \/ ReadText
  \/ LoadDraws
  \/ Orient
  \/ SelectWindow
  \/ BuildProfile

Spec == Init /\ [][Next]_vars

TypeOK ==
  /\ pc \in {"clicked", "stopped", "load", "failed", "orient", "window",
             "build", "done"}
  /\ recent \in 0..MaxRecent
  /\ \A i \in 1..Len(draws) :
       Len(draws[i]) = NumPos /\ \A p \in 1..NumPos : draws[i][p] \in 0..9

\* ------------------------------------------------------------ reference notions
\* the text handed to the pipeline
InputText == IF uploaded.present THEN uploaded.data ELSE raw_text

InputBlank == \A i \in 1..Len(InputText) : InputText[i] \in WhiteChars

IsDigitChar(c) == c \in DigitChars
DigitsOf(line) == SelectSeq(line, IsDigitChar)
FirstFive(line) == [g \in 1..NumPos |-> DigitVal(DigitsOf(line)[g])]

\* the line of t that starts at index i
RECURSIVE LineEnd(_, _)
LineEnd(t, j) == IF j > Len(t) \/ t[j] = NL THEN j - 1 ELSE LineEnd(t, j + 1)
LineAt(t, i) == SubSeq(t, i, LineEnd(t, i))
IsLineStart(t, i) == i = 1 \/ t[i - 1] = NL

\* one draw per line with at least five digits, in the order of the lines
RECURSIVE ExpectedFrom(_, _)
ExpectedFrom(t, i) ==
  IF i > Len(t) THEN <<>>
  ELSE (IF IsLineStart(t, i) /\ Len(DigitsOf(LineAt(t, i))) >= NumPos
        THEN <<FirstFive(LineAt(t, i))>> ELSE <<>>) \o ExpectedFrom(t, i + 1)
ExpectedDraws(t) == ExpectedFrom(t, 1)

Range(f) == {f[i] : i \in DOMAIN f}

\* distinct digits at position p among all draws but the last
PredDigits(ds, p) == {ds[i][p] : i \in 1..(Len(ds) - 1)}
Score(ds) ==
  Cardinality(PredDigits(ds, 1)) + Cardinality(PredDigits(ds, 2))
  + Cardinality(PredDigits(ds, 3)) + Cardinality(PredDigits(ds, 4))
  + Cardinality(PredDigits(ds, 5))

ReverseWins(ds) == Score(Reverse(ds)) > Score(ds)
Oriented(ds) == IF ReverseWins(ds) THEN Reverse(ds) ELSE ds

Min(a, b) == IF a <= b THEN a ELSE b
LastDraws(ds, k) == [i \in 1..k |-> ds[Len(ds) - k + i]]
Working(ds, n) == IF n <= 1 THEN ds ELSE LastDraws(ds, Min(n, Len(ds)))

\* digits at position p of ds; no other digit takes part in a transition
DigitsAt(ds, p) == {ds[i][p] : i \in 1..Len(ds)}

\* transitions a -> b at position p in ds
Transitions(ds, p, a, b) ==
  Cardinality({i \in 1..(Len(ds) - 1) : ds[i][p] = a /\ ds[i + 1][p] = b})

MatrixTotal(m) == SumSeq([a \in 1..NumDigits |-> SumSeq(m[a])])

NothingBuilt ==
  /\ draws = <<>> /\ note = NoMsg /\ recent_note = NoMsg /\ total_parsed = 0
  /\ counts = <<>> /\ mats = <<>> /\ buf = <<>> /\ filename = <<>>
  /\ caption = <<>> /\ sanity = <<>>

AfterLoad == pc \in {"orient", "window", "build", "done"}
AfterBuild == pc = "done"

Abs(x) == IF x < 0 THEN -x ELSE x
ZeroRow == [b \in 1..NumDigits |-> 0]

\* ------------------------------------------------------------ C1
\* C1: once the matrices are built from a working sequence of length >= 2,
\* for every position and predecessor digit a the output row is exactly ten
\* zeros when no draw but the last has digit a at that position, and
\* otherwise its ten entries sum to 100 within 1e-3.
C1_RowSums ==
  AfterBuild =>
    /\ Len(draws) >= 2
    /\ \A p \in 1..NumPos, a \in 0..9 :
         LET row == mats[p][2][a + 1]
         IN IF a \in PredDigits(draws, p)
            THEN Abs(SumSeq(row) - Hundred) <= 1000
            ELSE row = ZeroRow

\* a built profile with a row split 2:1, whose entries needed rounding
C1_Witness ==
  /\ AfterBuild
  /\ \E p \in 1..NumPos, a \in 1..NumDigits :
       /\ 66666667 \in Range(mats[p][2][a])
       /\ 33333333 \in Range(mats[p][2][a])
  /\ \E p \in 1..NumPos, a \in 1..NumDigits : mats[p][2][a] = ZeroRow

\* ------------------------------------------------------------ C2
\* C2: for each position the 100 cells of the count matrix sum to L-1 and
\* cell [a][b] is the number of adjacent pairs (a, b) of the working sequence,
\* which is the parsed sequence after reversal and windowing.
C2_Counts ==
  AfterBuild =>
    /\ draws = Working(Oriented(found), recent)
    /\ \A p \in 1..NumPos :
         /\ MatrixTotal(counts[p]) = Len(draws) - 1
         /\ LET D == DigitsAt(draws, p)
            IN /\ \A a, b \in D :
                    counts[p][a + 1][b + 1] = Transitions(draws, p, a, b)
               /\ \A a, b \in 0..9 :
                    (a \notin D \/ b \notin D) => counts[p][a + 1][b + 1] = 0

\* counts that differ from those of the sequence as parsed
C2_Witness ==
  /\ AfterBuild
  /\ Len(draws) >= 3
  /\ \E p \in 1..NumPos, a, b \in 0..9 :
       counts[p][a + 1][b + 1] # Transitions(found, p, a, b)

\* ------------------------------------------------------------ C3
ScenarioText == JoinLines(<<LineDashed, LinePlain, LineSecond>>)
ScenarioDraws == << <<1, 7, 4, 8, 8>>, <<1, 7, 4, 8, 8>>, <<2, 2, 3, 4, 5>> >>
ScenarioDone == pc = "done" /\ text = ScenarioText /\ recent = 0

\* C3 as stated: the scenario extracts the three draws, both orders score
\* the same, nothing is reversed, and the P1 row of digit 1 is
\* [0, 50, 50, 0, ...].
C3_AsStated ==
  ScenarioDone =>
    /\ found = ScenarioDraws
    /\ coverage(found) = coverage(Reverse(found))
    /\ note = NoteAlready
    /\ draws = found
    /\ mats[1][2][2] = <<0, 50000000, 50000000, 0, 0, 0, 0, 0, 0, 0>>

\* C3 (amended): the scenario extracts the three draws; the given order
\* scores 5 and its reverse 10, so the resolver reverses; the working
\* sequence is 22345, 17488, 17488 and the P1 rows of digits 1 and 2 are
\* both [0, 100, 0, ...] (transitions 2->1 and 1->1).
C3_Scenario ==
  ScenarioDone =>
    /\ found = ScenarioDraws
    /\ coverage(found) = 5
    /\ coverage(Reverse(found)) = 10
    /\ note = NoteReversed
    /\ draws = Reverse(ScenarioDraws)
    /\ counts[1][3][2] = 1 /\ counts[1][2][2] = 1
    /\ MatrixTotal(counts[1]) = 2
    /\ mats[1][1] = "P1"
    /\ mats[1][2][2] = <<0, Hundred, 0, 0, 0, 0, 0, 0, 0, 0>>
    /\ mats[1][2][3] = <<0, Hundred, 0, 0, 0, 0, 0, 0, 0, 0>>

C3_Witness == ScenarioDone /\ uploaded = NoFile /\ errors = <<>>

\* ------------------------------------------------------------ C4
\* the draw read as a 5-digit number
Val(d) == 10000 * d[1] + 1000 * d[2] + 100 * d[3] + 10 * d[4] + d[5]

\* an increasing history supplied newest first
NewestFirstFixture(ds) ==
  /\ Len(ds) >= 2
  /\ \A i \in 1..(Len(ds) - 1) : Val(ds[i]) > Val(ds[i + 1])

\* positions where the digit of draw k occurs in no other draw
Unique(ds, k) ==
  Cardinality({p \in 1..NumPos :
                 \A i \in 1..Len(ds) : i # k => ds[i][p] # ds[k][p]})

\* C4 as stated: an increasing history supplied newest first is returned
\* reversed, with the 'reversed' note.
C4_AsStated ==
  (pc = "window" /\ NewestFirstFixture(found)) =>
    (draws = Reverse(found) /\ note = NoteReversed)

\* C4 (amended): an increasing history supplied newest first is returned
\* reversed, with the 'reversed' note, exactly when its last draw has more
\* positions whose digit occurs in no other draw than its first draw has;
\* otherwise it is returned unchanged with the 'already' note.
C4_Fixture ==
  (pc = "window" /\ NewestFirstFixture(found)) =>
    IF Unique(found, Len(found)) > Unique(found, 1)
    THEN draws = Reverse(found) /\ note = NoteReversed
    ELSE draws = found /\ note = NoteAlready

\* a three-draw fixture that the resolver does reverse
C4_Witness ==
  /\ pc = "window"
  /\ NewestFirstFixture(found)
  /\ Len(found) = 3
  /\ note = NoteReversed

\* ------------------------------------------------------------ C5
\* C5: the resolver returns the reverse with the 'reversed' note iff the
\* reverse's score (distinct predecessor digits summed over the positions,
\* between 0 and 50) is strictly greater; otherwise, ties included, it
\* returns the input unchanged with the 'already' note.
C5_Orientation ==
  pc = "window" =>
    /\ Score(found) \in 0..50 /\ Score(Reverse(found)) \in 0..50
    /\ coverage(found) = Score(found)
    /\ IF Score(Reverse(found)) > Score(found)
       THEN draws = Reverse(found) /\ note = NoteReversed
       ELSE draws = found /\ note = NoteAlready

\* a tie between two different orders, kept as given
C5_Witness ==
  /\ pc = "window"
  /\ Score(Reverse(found)) = Score(found)
  /\ Reverse(found) # found
  /\ Len(found) >= 3
  /\ note = NoteAlready

\* ------------------------------------------------------------ C6
\* C6: the working sequence is the whole oriented sequence when N <= 1 and
\* its last min(N, L) draws, in order, when N > 1; the window is taken from
\* the oriented sequence, not from the sequence as parsed.
C6_Window ==
  pc \in {"build", "done"} =>
    LET o == Oriented(found)
    IN /\ total_parsed = Len(o)
       /\ recent <= 1 => draws = o
       /\ recent > 1 =>
            /\ Len(draws) = Min(recent, Len(o))
            /\ \A i \in 1..Len(draws) :
                 draws[i] = o[Len(o) - Len(draws) + i]

\* a proper window of a reversed sequence, unlike the same window as parsed
C6_Witness ==
  /\ pc = "build"
  /\ recent > 1 /\ recent < Len(found)
  /\ note = NoteReversed
  /\ draws # LastDraws(found, recent)

\* ------------------------------------------------------------ C7
\* C7: the extractor yields one draw per line with at least five digit
\* characters and none for other lines; each draw is the line's first five
\* digits; the draws keep the order of their lines.
C7_Extraction ==
  /\ pc \in {"failed", "orient"} => found = ExpectedDraws(text)
  /\ pc # "clicked" => text = InputText
  /\ pc \in {"window", "build", "done"} => total_parsed = Len(found)

\* a text with a line of six digits behind a label, a dashed line and a
\* line that has too few digits
C7_Witness ==
  /\ pc = "orient"
  /\ text = JoinLines(<<LineShort, LineDated, LineBlank, LineDashed>>)
  /\ found = << <<9, 1, 7, 4, 8>>, <<1, 7, 4, 8, 8>> >>

\* ------------------------------------------------------------ C8
\* C8: non-blank text with fewer than 2 draws fails with the single
\* insufficient-data error and nothing later runs or is produced; text with
\* 2 or more draws never raises it.
C8_TooFew ==
  /\ pc = "failed" =>
       /\ ~InputBlank
       /\ Len(ExpectedDraws(InputText)) < 2
       /\ errors = <<ErrTooFew>>
       /\ NothingBuilt
  /\ pc = "orient" => Len(ExpectedDraws(InputText)) >= 2
  /\ AfterLoad => (Len(found) >= 2 /\ errors = <<>>)

\* a single valid line
C8_Witness ==
  /\ pc = "failed"
  /\ Len(found) = 1
  /\ text = LineDashed

\* ------------------------------------------------------------ C9
\* C9: blank text (empty or whitespace only) reports the empty-input error
\* and stops; extraction is not attempted and nothing is produced.
C9_Blank ==
  /\ (InputBlank /\ pc # "clicked") =>
       /\ pc = "stopped"
       /\ errors = <<ErrEmpty>>
       /\ found = <<>>
       /\ NothingBuilt
  /\ pc = "stopped" => InputBlank

\* whitespace-only text of more than one line
C9_Witness ==
  /\ pc = "stopped"
  /\ Len(text) >= 3
  /\ errors = <<ErrEmpty>>

\* ------------------------------------------------------------ C10
HasNonZeroRow(m) == \E a \in 1..NumDigits : m[a] # ZeroRow

\* C10: after extraction succeeded the sequence has length >= 2 at every
\* later stage, for every N; N = 1 keeps all draws; each of the five
\* matrices has a non-zero row.
C10_Length ==
  /\ AfterLoad => Len(draws) >= 2
  /\ (pc \in {"build", "done"} /\ recent = 1) =>
       Len(draws) = Len(found)
  /\ AfterBuild => \A p \in 1..NumPos : HasNonZeroRow(mats[p][2])

\* N = 1 on more than two draws
C10_Witness ==
  /\ pc = "done"
  /\ recent = 1
  /\ Len(draws) >= 3

====
